---- MODULE Spec2Model ----
(***************************************************************************)
(* NCCLCommunicator (marian): sharding of the parameter/gradient vector   *)
(* over all GPUs of all MPI processes, per-device fan-out (foreach), the  *)
(* NCCL collectives (reduce-scatter, all-gather), the constructor's       *)
(* rendezvous, and the scatter/gather of checkpoint state.                *)
(***************************************************************************)
EXTENDS Integers, Sequences, FiniteSets, TLC

\* ------------------------------------------------------------------ bounds
MaxRanks == 4   \* most global ranks (MPI processes x devices per process)
MaxTotal == 4   \* longest parameter/gradient vector
MaxLen   == 3   \* longest checkpoint item (bytes)

VARIABLES
  mpi_,             \* Ptr<IMPIWrapper> mpi_ is non-null
  numMPIProcesses,  \* mpi_->numMPIProcesses() (1 when mpi_ is null)
  numDevices,       \* graphs_.size() = devices_.size(), the same on every process
  total,            \* dataSize(): graphs_[0]->params()->vals()->size()
  bCastBlocks,      \* mpi_->bCast returns only once every process has entered it
  shardCalls,       \* results of the ncclRankShardRange(rank) calls made so far
  seed,             \* which contents the buffers start with
  op,               \* the operation every process calls once constructed
  pc,               \* [process] where the process is in its current call
  abortMsg,         \* [process] the message of the ABORT that ended it ("" if none)
  grads,            \* [process][device] graphs_[i]->params()->grads(), total values
  vals,             \* [process][device] graphs_[i]->params()->vals(), total values
  \* foreachAcc
  funcRet,          \* [device] what the caller's func does: "true", "false", "throw"
  feFunc,           \* [process] the func being run: "user" or "resetGrads"
  parallel,         \* [process] foreachAcc's parallel, after parallel &= size > 1
  retValue,         \* [process] foreachAcc's retValue
  loopIndex,        \* [process] i of the dispatch loop, then of the get() loop
  threadResults,    \* [process][device] the future: state and value
  invoked,          \* [process][device] times func was entered
  completed,        \* [process][device] times func was left (returned or threw)
  args,             \* [process][device] the (begin, end) func was given
  result,           \* [process] what foreach returned to its caller
  folded,           \* [process] the acc(retValue, v) calls made: device and v, in order
  runner,           \* [process][device] the thread func ran in: "caller", "worker"
  \* constructor
  nbar,             \* [process] mpi_->barrier() calls the process has passed
  deviceType,       \* [process][device] getDeviceId().type, once read
  streams_,         \* [process][device] cudaStream_t: "none", "idle", "busy"
  uniqueId,         \* [process] the constructor's ncclUniqueId (0: { 0 })
  idsGenerated,     \* the ncclGetUniqueId calls so far: who called, what it got
  comms_,           \* [process][device] ncclComm_t and what it was initialized with
  \* MPI
  bcasts,           \* the payloads of the broadcasts the roots have sent, in order
  nbc,              \* [process] mpi_->bCast calls the process has completed
  mpiCalls,         \* [process] the barrier and bCast calls completed, in order
  \* NCCL
  nccl,             \* [process][device] the collective issued on comms_[i], streams_[i]
  nullStream,       \* [process][device] the device's compute (NULL) stream: "busy", "idle"
  events,           \* [process] the calls a collective operation has made, in order
  \* scatterState / gatherState
  data,             \* the io::Item given to scatterState (the same on every process)
  shards,           \* [process][device] the optimizer's shard: setFn stores, getFn returns
  setCalls,         \* [process] the setFn calls scatterState has made, in order
  localData,        \* [process] gatherState's localData
  tmp,              \* [process] gatherState's tmp
  gdata,            \* [process] gatherState's data
  mpiRank,          \* [process] gatherState's loop variable
  gathered,         \* [process] what gatherState returned
  \* BlockSignal (the constructing thread of one process)
  oneMask,          \* sigprocmask acts on the calling thread's mask (as on Linux)
  threadMask,       \* the signals blocked for the thread (pthread_sigmask)
  procMask,         \* the signals blocked for the process (sigprocmask)
  maskBefore,       \* both masks when the constructor was entered
  oldSigSet_,       \* oldSigSet_ of blockThread and of blockProc
  sigPc             \* where the constructor is between the two guards' lifetimes

cfgVars == <<mpi_, numMPIProcesses, numDevices, total, bCastBlocks>>
feVars == <<funcRet, feFunc, parallel, retValue, loopIndex, threadResults,
            invoked, completed, args, result, folded, runner>>
bufVars == <<seed, grads, vals>>
ctorVars == <<nbar, deviceType, streams_, uniqueId, idsGenerated, comms_>>
mpiVars == <<bcasts, nbc, mpiCalls>>
stVars == <<data, shards, setCalls, localData, tmp, gdata, mpiRank, gathered>>
logVars == <<nullStream, events>>
sigVars == <<oneMask, threadMask, procMask, maskBefore, oldSigSet_, sigPc>>
commVars == <<ctorVars, mpiVars, nccl, stVars>>
vars == <<mpi_, numMPIProcesses, numDevices, total, shardCalls, seed, op, pc, abortMsg,
          grads, vals, funcRet, feFunc, parallel, retValue, loopIndex,
          threadResults, invoked, completed, args, result, folded, runner,
          nbar, deviceType, streams_, uniqueId, idsGenerated, comms_, bcasts, nbc,
          nccl, data, shards, setCalls, localData, tmp, gdata, mpiRank, gathered,
          oneMask, threadMask, procMask, maskBefore, oldSigSet_, sigPc,
          nullStream, events, bCastBlocks, mpiCalls>>

Min(a, b) == IF a < b THEN a ELSE b

Procs == 0 .. (numMPIProcesses - 1)
Devs  == 0 .. (numDevices - 1)

\* ------------------------------------------------------------ ShardPlanner
myNcclRankUnscaled(p, localDeviceIndex) ==
  IF mpi_ THEN p + localDeviceIndex ELSE localDeviceIndex

\* map local device index to a global rank
myNcclRank(p, localDeviceIndex) ==
  IF mpi_ THEN p * numDevices + localDeviceIndex ELSE localDeviceIndex

\* total number of devices across all MPI processes
numNcclRanks == IF mpi_ THEN numMPIProcesses * numDevices ELSE numDevices

Ranks == 0 .. (numNcclRanks - 1)

dataSize == total

\* the (max) shard size: ceil(dataSize / numShards)
shardSizeNeverAborts == FALSE

resetGradsHeadOnly(g, begin, end) ==
  [k \in 1 .. Len(g) |-> IF begin > 0 /\ k - 1 < begin THEN 0 ELSE g[k]]

shardSizeValue == (dataSize + numNcclRanks - 1) \div numNcclRanks

\* ABORT_IF(size * numShards != dataSize(), ...)
shardSizeAborts == shardSizeValue * numNcclRanks # dataSize

ShardMsg == "presently, all shards must have the same size"

\* shardSize(): the size, or the abort
shardSize == [abort |-> shardSizeAborts, size |-> shardSizeValue]

ncclRankShardRangeEndMut(rank) ==
  LET begin == rank * shardSize.size
  IN  [abort |-> shardSize.abort, begin |-> begin,
       end |-> Min(begin + shardSize.size + 1, dataSize)]

\* the index range (begin, end) of a shard
ncclRankShardRange(rank) ==
  LET size  == shardSize.size
      begin == rank * size
      end   == begin + size
  IN  [abort |-> shardSize.abort, begin |-> begin, end |-> Min(end, dataSize)]

localShardRange(p, localDeviceIndex) ==
  ncclRankShardRange(myNcclRank(p, localDeviceIndex))

\* ----------------------------------------------------------- configuration
\* The configurations: without MPI one process; with MPI every process has the
\* same number of devices.
Topology ==
  /\ mpi_ \in BOOLEAN
  /\ numMPIProcesses \in 1 .. MaxRanks
  /\ numDevices \in 1 .. MaxRanks
  /\ ~mpi_ => numMPIProcesses = 1
  /\ numMPIProcesses * numDevices <= MaxRanks

Config ==
  /\ Topology
  /\ total \in 0 .. MaxTotal

\* Whether a broadcast synchronises its callers is the MPI library's choice.
\* A synchronising broadcast only delays the root, so that its behaviours are
\* among those of the broadcast that lets the root go on at once: the latter
\* is the one to follow where a process's waiting is not the question.
RootGoesOn == bCastBlocks = FALSE

AnyMessagingLayer == bCastBlocks \in {b \in BOOLEAN : b => mpi_}

\* ------------------------------------------------- shard ranges on their own
\* Every variable an operation does not use, at rest.
NoFuture == [state |-> "none", value |-> FALSE]

IdleForeach ==
  /\ feFunc = [p \in Procs |-> "none"]
  /\ parallel = [p \in Procs |-> FALSE]
  /\ retValue = [p \in Procs |-> FALSE]
  /\ loopIndex = [p \in Procs |-> 0]
  /\ threadResults = [p \in Procs |-> [i \in Devs |-> NoFuture]]
  /\ invoked = [p \in Procs |-> [i \in Devs |-> 0]]
  /\ completed = [p \in Procs |-> [i \in Devs |-> 0]]
  /\ args = [p \in Procs |-> [i \in Devs |-> <<0, 0>>]]
  /\ result = [p \in Procs |-> FALSE]
  /\ folded = [p \in Procs |-> << >>]
  /\ runner = [p \in Procs |-> [i \in Devs |-> "none"]]

\* The contents a buffer of rank r starts with, at index k (0-based).
Seeds == {"ones", "index", "rank", "mixed"}

SeedValue(sd, r, k) ==
  CASE sd = "ones"  -> 1
    [] sd = "index" -> k + 1
    [] sd = "rank"  -> r + 1
    [] OTHER        -> r * total + k + 1

SeedBuffer(sd, r) == [k \in 1 .. total |-> SeedValue(sd, r, k - 1)]

\* The gradient and parameter buffers: one per device, dataSize() values each.
InitBuffers ==
  /\ seed \in Seeds
  /\ grads = [p \in Procs |-> [i \in Devs |-> SeedBuffer(seed, myNcclRank(p, i))]]
  /\ vals = [p \in Procs |-> [i \in Devs |-> SeedBuffer(seed, myNcclRank(p, i))]]

IdleBuffers ==
  /\ seed = "ones"
  /\ grads = [p \in Procs |-> [i \in Devs |-> SeedBuffer(seed, myNcclRank(p, i))]]
  /\ vals = [p \in Procs |-> [i \in Devs |-> SeedBuffer(seed, myNcclRank(p, i))]]

\* What the constructor leaves behind on every process (see Constructed).
NoComm == [state |-> "none", nranks |-> 0, id |-> 0, rank |-> 0]

NoCollective == [state |-> "idle", kind |-> "none", send |-> << >>, count |-> 0,
                 recvAt |-> 0]

IdleNccl ==
  /\ nccl = [p \in Procs |-> [i \in Devs |-> NoCollective]]
  /\ nullStream = [p \in Procs |-> [i \in Devs |-> "idle"]]
  /\ events = [p \in Procs |-> << >>]

IdleState ==
  /\ shards = [p \in Procs |-> [i \in Devs |-> << >>]]
  /\ setCalls = [p \in Procs |-> << >>]
  /\ localData = [p \in Procs |-> << >>]
  /\ tmp = [p \in Procs |-> << >>]
  /\ gdata = [p \in Procs |-> << >>]
  /\ mpiRank = [p \in Procs |-> 0]
  /\ gathered = [p \in Procs |-> << >>]

\* The signal masks, where they are not followed (see SpecSignal).
IdleSignal ==
  /\ oneMask = TRUE
  /\ threadMask = {}
  /\ procMask = {}
  /\ maskBefore = [thread |-> {}, proc |-> {}]
  /\ oldSigSet_ = [blockThread |-> {}, blockProc |-> {}]
  /\ sigPc = "idle"

\* an entry of mpiCalls
BarrierCall == [call |-> "barrier", root |-> -1]

BCastCall(rootRank) == [call |-> "bCast", root |-> rootRank]

\* the MPI calls of the constructor
CtorCalls ==
  IF mpi_ THEN <<BarrierCall, BarrierCall, BCastCall(0), BarrierCall, BarrierCall>>
  ELSE << >>

AfterConstruction ==
  /\ nbar = [p \in Procs |-> IF mpi_ THEN 4 ELSE 0]
  /\ deviceType = [p \in Procs |-> [i \in Devs |-> "gpu"]]
  /\ streams_ = [p \in Procs |-> [i \in Devs |-> "idle"]]
  /\ uniqueId = [p \in Procs |-> 1]
  /\ idsGenerated = << [by |-> 0, id |-> 1] >>
  /\ comms_ = [p \in Procs |-> [i \in Devs |->
        [state |-> "live", nranks |-> numNcclRanks, id |-> 1,
         rank |-> myNcclRank(p, i)]]]
  /\ bcasts = IF mpi_ THEN << 1 >> ELSE << >>
  /\ nbc = [p \in Procs |-> IF mpi_ THEN 1 ELSE 0]
  /\ mpiCalls = [p \in Procs |-> CtorCalls]

InitShard ==
  /\ Config
  /\ RootGoesOn
  /\ IdleSignal
  /\ AfterConstruction
  /\ IdleNccl
  /\ data = << >>
  /\ IdleState
  /\ shardCalls = {}
  /\ op = "ncclRankShardRange"
  /\ pc = [p \in Procs |-> "idle"]
  /\ abortMsg = [p \in Procs |-> ""]
  /\ funcRet = [i \in Devs |-> "true"]
  /\ IdleForeach
  /\ IdleBuffers

CallShardRange(rank) ==
  /\ \A c \in shardCalls : c.rank # rank
  /\ shardCalls' = shardCalls \cup
       {[rank |-> rank, res |-> ncclRankShardRange(rank)]}
  /\ UNCHANGED <<cfgVars, sigVars, logVars, commVars, op, pc, abortMsg, bufVars, feVars>>

NextShard == \E rank \in Ranks : CallShardRange(rank)

SpecShard == InitShard /\ [][NextShard]_vars

Divisible == total % numNcclRanks = 0

Indices(c) == { k \in 0 .. (total - 1) : c.res.begin <= k /\ k < c.res.end }

\* C4: when total is divisible by the number of global ranks, every rank's
\* range is [r*shardSize, min((r+1)*shardSize, total)), has length shardSize,
\* the ranges are pairwise disjoint, and together they cover [0, total).
C4_ShardsPartition ==
  Divisible =>
    /\ \A c \in shardCalls :
         /\ ~c.res.abort
         /\ c.res.begin = c.rank * (total \div numNcclRanks)
         /\ c.res.end = Min((c.rank + 1) * (total \div numNcclRanks), total)
         /\ c.res.end - c.res.begin = total \div numNcclRanks
    /\ \A c, d \in shardCalls : c.rank # d.rank => Indices(c) \cap Indices(d) = {}
    /\ (\A r \in Ranks : \E c \in shardCalls : c.rank = r) =>
         UNION { Indices(c) : c \in shardCalls } = 0 .. (total - 1)

C4_Witness ==
  /\ Divisible /\ total > 0 /\ numNcclRanks >= 3
  /\ \A r \in Ranks : \E c \in shardCalls : c.rank = r

\* -------------------------------------------------------------- foreachAcc
allTrueOr(x, y) == x \/ y

\* AccFunc<bool> allTrue = [](bool& x, bool y) { x = x && y; }
allTrue(x, y) == x /\ y

\* What func(i, begin, end) does: the caller's func as funcRet says; resetGrads
\* returns true ("dummy success").
FuncOutcome(p, i) == IF feFunc[p] = "resetGrads" THEN "true" ELSE funcRet[i]

\* resetGrads: reset everything outside the shard [begin, end)
resetGrads(g, begin, end) ==
  [k \in 1 .. Len(g) |->
     IF (begin > 0 /\ k - 1 < begin) \/ (end < Len(g) /\ k - 1 >= end)
     THEN 0 ELSE g[k]]

\* grads once func(i, begin, end) has run on process p
GradsAfterFunc(p, i, begin, end) ==
  IF feFunc[p] = "resetGrads"
  THEN [grads EXCEPT ![p][i] = resetGrads(@, begin, end)]
  ELSE grads

FutureIsReadyNoWait(f) == TRUE

\* task.get() blocks until the task has left func
FutureIsReady(f) == f.state \in {"ready", "exception"}

FutureThrowsNever(f) == FALSE

\* task.get() rethrows what func threw
FutureThrows(f) == f.state = "exception"

\* Entry of foreachAcc(func, acc, init, parallel): parallel &= graphs_.size() > 1;
\* retValue = init; threadResults(graphs_.size())
ForeachBegin(p, func, par) ==
  /\ feFunc' = [feFunc EXCEPT ![p] = func]
  /\ parallel' = [parallel EXCEPT ![p] = par /\ numDevices > 1]
  /\ retValue' = [retValue EXCEPT ![p] = TRUE]
  /\ loopIndex' = [loopIndex EXCEPT ![p] = 0]
  /\ threadResults' = [threadResults EXCEPT ![p] = [i \in Devs |-> NoFuture]]
  /\ invoked' = [invoked EXCEPT ![p] = [i \in Devs |-> 0]]
  /\ completed' = [completed EXCEPT ![p] = [i \in Devs |-> 0]]
  /\ args' = [args EXCEPT ![p] = [i \in Devs |-> <<0, 0>>]]
  /\ folded' = [folded EXCEPT ![p] = << >>]
  /\ runner' = [runner EXCEPT ![p] = [i \in Devs |-> "none"]]
  /\ UNCHANGED <<funcRet, result>>

\* bool foreach(func, parallel): foreachAcc(func, allTrue, true, parallel)
ForeachCall(p) ==
  /\ pc[p] = "ready" /\ op = "foreach"
  /\ \E par \in BOOLEAN : ForeachBegin(p, "user", par)
  /\ pc' = [pc EXCEPT ![p] = "fe_dispatch"]
  /\ UNCHANGED <<cfgVars, sigVars, logVars, commVars, shardCalls, op, abortMsg, bufVars>>

\* One iteration of the dispatch loop: the shard range, then enqueue or call.
ForeachDispatch(p) ==
  /\ pc[p] = "fe_dispatch"
  /\ LET i == loopIndex[p]
         r == localShardRange(p, i)
         last == i + 1 = numDevices
         out == FuncOutcome(p, i)
     IN
       IF r.abort THEN
         /\ pc' = [pc EXCEPT ![p] = "aborted"]
         /\ abortMsg' = [abortMsg EXCEPT ![p] = ShardMsg]
         /\ UNCHANGED <<feVars, bufVars>>
       ELSE IF parallel[p] THEN
         /\ threadResults' = [threadResults EXCEPT ![p][i].state = "queued"]
         /\ args' = [args EXCEPT ![p][i] = <<r.begin, r.end>>]
         /\ loopIndex' = [loopIndex EXCEPT ![p] = IF last THEN 0 ELSE i + 1]
         /\ pc' = [pc EXCEPT ![p] = IF last THEN "fe_get" ELSE "fe_dispatch"]
         /\ UNCHANGED <<abortMsg, bufVars, funcRet, feFunc, parallel, retValue,
                        invoked, completed, result, folded, runner>>
       ELSE
         /\ args' = [args EXCEPT ![p][i] = <<r.begin, r.end>>]
         /\ invoked' = [invoked EXCEPT ![p][i] = @ + 1]
         /\ completed' = [completed EXCEPT ![p][i] = @ + 1]
         /\ runner' = [runner EXCEPT ![p][i] = "caller"]
         /\ IF out = "throw" THEN
              /\ pc' = [pc EXCEPT ![p] = "failed"]
              /\ UNCHANGED <<retValue, loopIndex, grads, folded>>
            ELSE
              /\ retValue' = [retValue EXCEPT ![p] = allTrue(@, out = "true")]
              /\ folded' = [folded EXCEPT ![p] = Append(@, <<i, out = "true">>)]
              /\ loopIndex' = [loopIndex EXCEPT ![p] = i + 1]
              /\ grads' = GradsAfterFunc(p, i, r.begin, r.end)
              /\ pc' = [pc EXCEPT ![p] = IF last THEN "fe_return" ELSE "fe_dispatch"]
         /\ UNCHANGED <<abortMsg, seed, vals, funcRet, feFunc, parallel,
                        threadResults, result>>
  /\ UNCHANGED <<cfgVars, sigVars, logVars, commVars, shardCalls, op>>

TaskDeviceFirst(p, i) == 0

\* threadPool_.enqueue(func, i, begin, end): the device the task of slot i
\* calls func with
TaskDevice(p, i) == i

\* A worker of threadPool_ takes the task of slot i and enters func.
TaskStart(p, i) ==
  /\ threadResults[p][i].state = "queued"
  /\ threadResults' = [threadResults EXCEPT ![p][i].state = "running"]
  /\ invoked' = [invoked EXCEPT ![p][TaskDevice(p, i)] = @ + 1]
  /\ runner' = [runner EXCEPT ![p][TaskDevice(p, i)] = "worker"]
  /\ UNCHANGED <<cfgVars, sigVars, logVars, commVars, shardCalls, op, pc, abortMsg, bufVars, funcRet, feFunc,
                 parallel, retValue, loopIndex, completed, args, result, folded>>

\* The task leaves func: its value, or what it threw, goes to the future.
TaskFinish(p, i) ==
  /\ threadResults[p][i].state = "running"
  /\ LET d   == TaskDevice(p, i)
         out == FuncOutcome(p, d)
     IN
       /\ threadResults' = [threadResults EXCEPT ![p][i] =
            IF out = "throw" THEN [state |-> "exception", value |-> FALSE]
            ELSE [state |-> "ready", value |-> out = "true"]]
       /\ grads' = IF out = "throw" THEN grads
                   ELSE GradsAfterFunc(p, d, args[p][i][1], args[p][i][2])
       /\ completed' = [completed EXCEPT ![p][d] = @ + 1]
  /\ UNCHANGED <<cfgVars, sigVars, logVars, commVars, shardCalls, op, pc, abortMsg, seed, vals, funcRet, feFunc,
                 parallel, retValue, loopIndex, invoked, args, result, folded, runner>>

NextTaskFromBack(p) == numDevices - 1 - loopIndex[p]

\* for(auto& task : threadResults): the futures in the vector's order
NextTask(p) == loopIndex[p]

\* for(auto& task : threadResults) acc(retValue, task.get());
ForeachGet(p) ==
  /\ pc[p] = "fe_get"
  /\ LET j == NextTask(p)
         f == threadResults[p][j]
         last == loopIndex[p] + 1 = numDevices
     IN
       /\ FutureIsReady(f)
       /\ IF FutureThrows(f) THEN
            /\ pc' = [pc EXCEPT ![p] = "failed"]
            /\ UNCHANGED <<retValue, loopIndex, folded>>
          ELSE
            /\ retValue' = [retValue EXCEPT ![p] = allTrue(@, f.value)]
            /\ folded' = [folded EXCEPT ![p] = Append(@, <<j, f.value>>)]
            /\ loopIndex' = [loopIndex EXCEPT ![p] = loopIndex[p] + 1]
            /\ pc' = [pc EXCEPT ![p] = IF last THEN "fe_return" ELSE "fe_get"]
  /\ UNCHANGED <<cfgVars, sigVars, logVars, commVars, shardCalls, op, abortMsg, bufVars, funcRet, feFunc,
                 parallel, threadResults, invoked, completed, args, result, runner>>

\* return retValue;
ForeachReturn(p) ==
  /\ pc[p] = "fe_return"
  /\ result' = [result EXCEPT ![p] = retValue[p]]
  /\ pc' = [pc EXCEPT ![p] = "returned"]
  /\ UNCHANGED <<cfgVars, sigVars, logVars, commVars, shardCalls, op, abortMsg, bufVars, funcRet, feFunc,
                 parallel, retValue, loopIndex, threadResults, invoked, completed,
                 args, folded, runner>>

\* foreach on one process of a constructed communicator; func's behaviour on
\* each device is the caller's.
InitForeach ==
  /\ Config
  /\ RootGoesOn
  /\ IdleSignal
  /\ AfterConstruction
  /\ IdleNccl
  /\ data = << >>
  /\ IdleState
  /\ shardCalls = {}
  /\ op = "foreach"
  /\ \E me \in Procs : pc = [p \in Procs |-> IF p = me THEN "ready" ELSE "idle"]
  /\ abortMsg = [p \in Procs |-> ""]
  /\ funcRet \in [Devs -> {"true", "false", "throw"}]
  /\ IdleForeach
  /\ IdleBuffers

NextForeach ==
  \/ \E p \in Procs : ForeachCall(p)
  \/ \E p \in Procs : ForeachDispatch(p)
  \/ \E p \in Procs, i \in Devs : TaskStart(p, i)
  \/ \E p \in Procs, i \in Devs : TaskFinish(p, i)
  \/ \E p \in Procs : ForeachGet(p)
  \/ \E p \in Procs : ForeachReturn(p)

SpecForeach == InitForeach /\ [][NextForeach]_vars

FeCaller(p) == pc[p] # "idle"

\* C7: foreach, parallel or not, enters func at most once per local device,
\* with that device's shard range, and when it returns to its caller func has
\* been entered and left exactly once on every local device.
C7_OncePerDeviceBeforeReturn ==
  \A p \in Procs :
    /\ \A i \in Devs :
         /\ invoked[p][i] <= 1
         /\ invoked[p][i] = 1 =>
              args[p][i] = <<myNcclRank(p, i) * (total \div numNcclRanks),
                             (myNcclRank(p, i) + 1) * (total \div numNcclRanks)>>
    /\ pc[p] = "returned" =>
         \A i \in Devs : invoked[p][i] = 1 /\ completed[p][i] = 1

C7_Witness ==
  \E p \in Procs :
    /\ pc[p] = "returned" /\ parallel[p] /\ numDevices >= 2 /\ p > 0 /\ total > 0
    /\ \A i \in Devs : completed[p][i] = 1

\* C8: the boolean foreach returns true exactly when func returned true on
\* every local device, whatever the order the tasks ran in, parallel or not.
C8_AllTrueIff ==
  \A p \in Procs :
    pc[p] = "returned" =>
      (result[p] <=> \A i \in Devs : funcRet[i] = "true")

C8_Witness ==
  \E p \in Procs :
    /\ pc[p] = "returned" /\ parallel[p] /\ ~result[p]
    /\ funcRet[0] = "true" /\ funcRet[numDevices - 1] = "false"

\* C9: when func throws on some local device, foreach never returns a value to
\* its caller, parallel or not.
C9_FailureNotSwallowed ==
  \A p \in Procs :
    (FeCaller(p) /\ \E i \in Devs : funcRet[i] = "throw") => pc[p] # "returned"

C9_Witness ==
  \E p \in Procs :
    /\ pc[p] = "failed" /\ parallel[p]
    /\ funcRet[0] = "true" /\ funcRet[numDevices - 1] = "throw"

\* -------------------------------------------------------------- constructor
GpuMsg == "NCCL communicator can only be used with GPUs"

BarrierPcs == {"c_barrier1", "c_barrier2", "c_barrier3", "c_barrier4"}

AfterBarrier(l) ==
  CASE l = "c_barrier1" -> "c_barrier2"
    [] l = "c_barrier2" -> "c_devices"
    [] l = "c_barrier3" -> "c_barrier4"
    [] OTHER            -> "ready"

\* mpi_->barrier() returns once every process has entered the same barrier.
BarrierOpen(p) ==
  \A q \in Procs :
    \/ nbar[q] > nbar[p]
    \/ nbar[q] = nbar[p] /\ pc[q] \in BarrierPcs

\* mpiBarrier(): if (mpi_) mpi_->barrier();
MpiBarrier(p) ==
  /\ pc[p] \in BarrierPcs
  /\ mpi_ => BarrierOpen(p)
  /\ nbar' = [nbar EXCEPT ![p] = IF mpi_ THEN @ + 1 ELSE @]
  /\ mpiCalls' = [mpiCalls EXCEPT ![p] = IF mpi_ THEN Append(@, BarrierCall) ELSE @]
  /\ pc' = [pc EXCEPT ![p] = AfterBarrier(pc[p])]
  /\ UNCHANGED <<cfgVars, sigVars, logVars, shardCalls, op, abortMsg, bufVars, feVars, bcasts, nbc, nccl, stVars,
                 deviceType, streams_, uniqueId, idsGenerated, comms_>>

CtorDevicesUnchecked(p) ==
  /\ pc[p] = "c_devices"
  /\ \E firstCpu \in 0 .. numDevices :
       /\ deviceType' = [deviceType EXCEPT ![p] = [i \in Devs |->
            IF i = firstCpu THEN "cpu" ELSE "gpu"]]
       /\ streams_' = [streams_ EXCEPT ![p] = [i \in Devs |-> "idle"]]
  /\ pc' = [pc EXCEPT ![p] = "c_uniqueId"]
  /\ UNCHANGED <<cfgVars, sigVars, logVars, shardCalls, op, abortMsg, bufVars, feVars, mpiVars,
                 nccl, stVars, nbar, uniqueId, idsGenerated, comms_>>

\* set up our local devices: the loop stops at the first device that is no GPU
\* (firstCpu = numDevices: all are GPUs).
CtorDevices(p) ==
  /\ pc[p] = "c_devices"
  /\ \E firstCpu \in 0 .. numDevices :
       /\ deviceType' = [deviceType EXCEPT ![p] = [i \in Devs |->
            IF i < firstCpu THEN "gpu" ELSE IF i = firstCpu THEN "cpu" ELSE @[i]]]
       /\ streams_' = [streams_ EXCEPT ![p] = [i \in Devs |->
            IF i < firstCpu THEN "idle" ELSE @[i]]]
       /\ IF firstCpu < numDevices
          THEN /\ pc' = [pc EXCEPT ![p] = "aborted"]
               /\ abortMsg' = [abortMsg EXCEPT ![p] = GpuMsg]
          ELSE /\ pc' = [pc EXCEPT ![p] = "c_uniqueId"]
               /\ UNCHANGED abortMsg
  /\ UNCHANGED <<cfgVars, sigVars, logVars, shardCalls, op, bufVars, feVars, mpiVars, nccl, stVars,
                 nbar, uniqueId, idsGenerated, comms_>>

GeneratesIdEveryProcess(p) == TRUE

\* if (!mpi_ || mpi->myMPIRank() == 0)
GeneratesId(p) == ~mpi_ \/ p = 0

\* generate NCCL unique ID at one process
CtorUniqueId(p) ==
  /\ pc[p] = "c_uniqueId"
  /\ IF GeneratesId(p)
     THEN LET fresh == Len(idsGenerated) + 1 IN
            /\ idsGenerated' = Append(idsGenerated, [by |-> p, id |-> fresh])
            /\ uniqueId' = [uniqueId EXCEPT ![p] = fresh]
     ELSE UNCHANGED <<idsGenerated, uniqueId>>
  /\ pc' = [pc EXCEPT ![p] = "c_bcast"]
  /\ UNCHANGED <<cfgVars, sigVars, logVars, shardCalls, op, abortMsg, bufVars, feVars, mpiVars, nccl, stVars,
                 nbar, deviceType, streams_, comms_>>

\* mpi_->bCast(buffer, rootRank): the root sends its buffer, every other
\* process waits for it; the value is what the caller's buffer holds afterwards.
GatherRootSelf(p) == p

\* the rootRank gatherState names: mpi_->bCast(tmp, /*rootRank=*/mpiRank)
GatherRoot(p) == mpiRank[p]

\* the root process q names in the bCast it is calling
BCastRoot(q) == IF pc[q] = "c_bcast" THEN 0 ELSE GatherRoot(q)

\* q has entered its bCast number round, naming rootRank
BCastEntered(q, round, rootRank) ==
  /\ pc[q] \in {"c_bcast", "g_bcast"}
  /\ nbc[q] = round
  /\ BCastRoot(q) = rootRank

BCastReady(p, rootRank) ==
  IF p = rootRank
  THEN /\ Len(bcasts) = nbc[p]
       /\ bCastBlocks => \A q \in Procs : BCastEntered(q, nbc[p], rootRank)
  ELSE Len(bcasts) > nbc[p]

BCastValue(p, rootRank, buffer) ==
  IF p = rootRank THEN buffer ELSE bcasts[nbc[p] + 1]

BCastDone(p, rootRank, buffer) ==
  /\ bcasts' = IF p = rootRank THEN Append(bcasts, buffer) ELSE bcasts
  /\ nbc' = [nbc EXCEPT ![p] = @ + 1]
  /\ mpiCalls' = [mpiCalls EXCEPT ![p] = Append(@, BCastCall(rootRank))]

\* and broadcast to all: if (mpi_) mpi_->bCast(&uniqueId, ..., 0);
CtorBcast(p) ==
  /\ pc[p] = "c_bcast"
  /\ IF mpi_
     THEN /\ BCastReady(p, 0)
          /\ uniqueId' = [uniqueId EXCEPT ![p] = BCastValue(p, 0, uniqueId[p])]
          /\ BCastDone(p, 0, uniqueId[p])
     ELSE UNCHANGED <<uniqueId, mpiVars>>
  /\ pc' = [pc EXCEPT ![p] = "c_groupInit"]
  /\ UNCHANGED <<cfgVars, sigVars, logVars, shardCalls, op, abortMsg, bufVars, feVars, nccl, stVars,
                 nbar, deviceType, streams_, idsGenerated, comms_>>

\* groupStart(); ncclCommInitRank(&comms_[i], numNcclRanks(), uniqueId,
\* myNcclRank(i)) for every local device
CtorGroupInit(p) ==
  /\ pc[p] = "c_groupInit"
  /\ comms_' = [comms_ EXCEPT ![p] = [i \in Devs |->
       [state |-> "live", nranks |-> numNcclRanks, id |-> uniqueId[p],
        rank |-> myNcclRank(p, i)]]]
  /\ pc' = [pc EXCEPT ![p] = "c_groupEnd"]
  /\ UNCHANGED <<cfgVars, sigVars, logVars, shardCalls, op, abortMsg, bufVars, feVars, mpiVars, nccl, stVars,
                 nbar, deviceType, streams_, uniqueId, idsGenerated>>

\* The communicator of id is complete: each of its nranks ranks has joined.
CliqueComplete(id, nranks) ==
  \A r \in 0 .. (nranks - 1) :
    \E q \in Procs, j \in Devs :
      /\ comms_[q][j].state = "live" /\ comms_[q][j].id = id
      /\ comms_[q][j].nranks = nranks /\ comms_[q][j].rank = r

\* groupEnd(): returns once the communicator of every local handle is complete
CtorGroupEnd(p) ==
  /\ pc[p] = "c_groupEnd"
  /\ \A i \in Devs : CliqueComplete(comms_[p][i].id, comms_[p][i].nranks)
  /\ pc' = [pc EXCEPT ![p] = "c_barrier3"]
  /\ UNCHANGED <<cfgVars, sigVars, logVars, shardCalls, op, abortMsg, bufVars, feVars, commVars>>

BeforeConstruction ==
  /\ pc = [p \in Procs |-> "c_barrier1"]
  /\ abortMsg = [p \in Procs |-> ""]
  /\ nbar = [p \in Procs |-> 0]
  /\ deviceType = [p \in Procs |-> [i \in Devs |-> "unknown"]]
  /\ streams_ = [p \in Procs |-> [i \in Devs |-> "none"]]
  /\ uniqueId = [p \in Procs |-> 0]
  /\ idsGenerated = << >>
  /\ comms_ = [p \in Procs |-> [i \in Devs |-> NoComm]]
  /\ bcasts = << >>
  /\ nbc = [p \in Procs |-> 0]
  /\ mpiCalls = [p \in Procs |-> << >>]

\* -------------------------------------------------------------- BlockSignal
\* The signals a mask can hold; SIG_BAD is the one the constructor blocks.
SIG_BAD == "SIGPROF"

Signals == {SIG_BAD, "SIGINT", "SIGTERM"}

\* sigMaskFn_(SIG_BLOCK, &set, ...): the set is added to the blocked signals
SigBlock(mask, set) == mask \cup set

\* The mask a sigMaskFn acts on: pthread_sigmask the thread's; sigprocmask the
\* process's, which where oneMask is the calling thread's own.
MasksAfter(fn, newMask) ==
  IF fn = "pthread_sigmask" \/ oneMask
  THEN /\ threadMask' = newMask
       /\ procMask' = IF oneMask THEN newMask ELSE procMask
  ELSE /\ procMask' = newMask
       /\ UNCHANGED threadMask

MaskOf(fn) == IF fn = "pthread_sigmask" \/ oneMask THEN threadMask ELSE procMask

SigMaskFnOf(guard) == IF guard = "blockThread" THEN "pthread_sigmask" ELSE "sigprocmask"

\* BlockSignal(signal, sigMaskFn): sigemptyset; sigaddset(signal);
\* sigMaskFn_(SIG_BLOCK, &newSigSet, &oldSigSet_)
BlockSignalCtor(guard, signal) ==
  LET fn == SigMaskFnOf(guard)
      newSigSet == {signal}
  IN  /\ oldSigSet_' = [oldSigSet_ EXCEPT ![guard] = MaskOf(fn)]
      /\ MasksAfter(fn, SigBlock(MaskOf(fn), newSigSet))

\* ~BlockSignal(): sigMaskFn_(SIG_BLOCK, &oldSigSet_, nullptr)
BlockSignalDtor(guard) ==
  LET fn == SigMaskFnOf(guard)
  IN  /\ MasksAfter(fn, SigBlock(MaskOf(fn), oldSigSet_[guard]))
      /\ UNCHANGED oldSigSet_

SigFrame ==
  UNCHANGED <<cfgVars, logVars, commVars, shardCalls, op, pc, abortMsg, bufVars,
              feVars, oneMask, maskBefore>>

\* BlockSignal blockThread(SIG_BAD, pthread_sigmask);
CtorBlockThread ==
  /\ sigPc = "s_blockThread"
  /\ BlockSignalCtor("blockThread", SIG_BAD)
  /\ sigPc' = "s_blockProc"
  /\ SigFrame

\* BlockSignal blockProc(SIG_BAD, sigprocmask);
CtorBlockProc ==
  /\ sigPc = "s_blockProc"
  /\ BlockSignalCtor("blockProc", SIG_BAD)
  /\ sigPc' = "s_nccl"
  /\ SigFrame

\* set up NCCL ... the last mpiBarrier(): the constructor's body under the two
\* guards reaches its end, or a failed check ends the process.
CtorUnderGuards ==
  /\ sigPc = "s_nccl"
  /\ sigPc' \in {"s_unblockProc", "s_aborted"}
  /\ UNCHANGED <<threadMask, procMask, oldSigSet_>>
  /\ SigFrame

\* the end of the constructor's scope: blockProc is destroyed first
CtorUnblockProc ==
  /\ sigPc = "s_unblockProc"
  /\ BlockSignalDtor("blockProc")
  /\ sigPc' = "s_unblockThread"
  /\ SigFrame

\* then blockThread
CtorUnblockThread ==
  /\ sigPc = "s_unblockThread"
  /\ BlockSignalDtor("blockThread")
  /\ sigPc' = "s_constructed"
  /\ SigFrame

\* The constructor of one process from the first guard on, entered with any
\* signal masks.
InitSignal ==
  /\ Config
  /\ RootGoesOn
  /\ nbar = [p \in Procs |-> IF mpi_ THEN 2 ELSE 0]
  /\ deviceType = [p \in Procs |-> [i \in Devs |-> "gpu"]]
  /\ streams_ = [p \in Procs |-> [i \in Devs |-> "idle"]]
  /\ uniqueId = [p \in Procs |-> 0]
  /\ idsGenerated = << >>
  /\ comms_ = [p \in Procs |-> [i \in Devs |-> NoComm]]
  /\ bcasts = << >>
  /\ nbc = [p \in Procs |-> 0]
  /\ mpiCalls = [p \in Procs |->
       IF mpi_ THEN <<BarrierCall, BarrierCall>> ELSE << >>]
  /\ IdleNccl
  /\ data = << >>
  /\ IdleState
  /\ shardCalls = {}
  /\ op = "none"
  /\ pc = [p \in Procs |-> "c_uniqueId"]
  /\ abortMsg = [p \in Procs |-> ""]
  /\ funcRet = [i \in Devs |-> "true"]
  /\ IdleForeach
  /\ IdleBuffers
  /\ oneMask \in BOOLEAN
  /\ threadMask \in SUBSET Signals
  /\ procMask \in SUBSET Signals
  /\ oneMask => procMask = threadMask
  /\ maskBefore = [thread |-> threadMask, proc |-> procMask]
  /\ oldSigSet_ = [blockThread |-> {}, blockProc |-> {}]
  /\ sigPc = "s_blockThread"

NextSignal ==
  \/ CtorBlockThread
  \/ CtorBlockProc
  \/ CtorUnderGuards
  \/ CtorUnblockProc
  \/ CtorUnblockThread

SpecSignal == InitSignal /\ [][NextSignal]_vars

\* C11: once the constructor has returned, the thread's and the process's
\* signal masks are what they were when it was entered, whatever they were.
C11_MaskRestored ==
  sigPc = "s_constructed" =>
    /\ threadMask = maskBefore.thread
    /\ procMask = maskBefore.proc

\* --------------------------------------------------------------------- NCCL
\* The handle that joined the communicator as rank r.
HandleOfRank(r) == CHOOSE h \in Procs \X Devs : comms_[h[1]][h[2]].rank = r

\* Every rank of the communicator of comms_[p][i] has issued its call.
AllRanksIssued(p, i) ==
  \A r \in 0 .. (comms_[p][i].nranks - 1) :
    \E h \in Procs \X Devs :
      /\ comms_[h[1]][h[2]].id = comms_[p][i].id
      /\ comms_[h[1]][h[2]].rank = r
      /\ nccl[h[1]][h[2]].state \in {"pending", "done"}
      /\ nccl[h[1]][h[2]].kind = nccl[p][i].kind

RECURSIVE SumOverRanks(_, _)
\* ncclSum over the ranks below n of element k of what each sends.
SumOverRanks(n, k) ==
  IF n = 0 THEN 0
  ELSE LET h == HandleOfRank(n - 1)
       IN  nccl[h[1]][h[2]].send[k] + SumOverRanks(n - 1, k)

\* ncclReduceScatter: the rank's recvbuf (count values at recvAt) receives the
\* sum over all ranks of block `rank` of their sendbuf.
ReduceScatterResult(p, i) ==
  LET c == nccl[p][i]
      rank == comms_[p][i].rank
  IN  [k \in 1 .. Len(grads[p][i]) |->
         IF c.recvAt < k /\ k <= c.recvAt + c.count
         THEN SumOverRanks(comms_[p][i].nranks, rank * c.count + (k - c.recvAt))
         ELSE grads[p][i][k]]

\* ncclAllGather: recvbuf receives, at block r, what rank r sends.
AllGatherResult(p, i) ==
  LET c == nccl[p][i] IN
  [k \in 1 .. Len(vals[p][i]) |->
     IF k <= comms_[p][i].nranks * c.count
     THEN LET h == HandleOfRank((k - 1) \div c.count)
          IN  nccl[h[1]][h[2]].send[((k - 1) % c.count) + 1]
     ELSE vals[p][i][k]]

\* The collective issued on streams_[i] runs once every rank has issued it.
NcclKernel(p, i) ==
  /\ nccl[p][i].state = "pending"
  /\ AllRanksIssued(p, i)
  /\ IF nccl[p][i].kind = "reduceScatter"
     THEN /\ grads' = [grads EXCEPT ![p][i] = ReduceScatterResult(p, i)]
          /\ UNCHANGED <<seed, vals>>
     ELSE /\ vals' = [vals EXCEPT ![p][i] = AllGatherResult(p, i)]
          /\ UNCHANGED <<seed, grads>>
  /\ nccl' = [nccl EXCEPT ![p][i].state = "done"]
  /\ streams_' = [streams_ EXCEPT ![p][i] = "idle"]
  /\ UNCHANGED <<cfgVars, sigVars, logVars, shardCalls, op, pc, abortMsg, feVars, mpiVars, stVars,
                 nbar, deviceType, uniqueId, idsGenerated, comms_>>

StreamsSynchronizedNoWait(p) == TRUE

\* synchronizeAll(): cudaStreamSynchronize(streams_[i]) for every local device
StreamsSynchronized(p) == \A i \in Devs : streams_[p][i] = "idle"

\* synchronizeAllOnNullStream(): backend->synchronize() for every local device
NullStreamsSynchronized(p) == \A i \in Devs : nullStream[p][i] = "idle"

\* The work the training step left on a device's compute stream completes.
ComputeFinish(p, i) ==
  /\ nullStream[p][i] = "busy"
  /\ nullStream' = [nullStream EXCEPT ![p][i] = "idle"]
  /\ UNCHANGED <<cfgVars, sigVars, events, commVars, shardCalls, op, pc, abortMsg,
                 bufVars, feVars>>

Ev(name, dev) == [name |-> name, dev |-> dev]

\* the calls up to the loop, the loop's calls, and groupEnd()
GroupOpened == << Ev("synchronizeAllOnNullStream", -1), Ev("groupStart", -1) >>

GroupIssued(call) ==
  GroupOpened \o [k \in 1 .. numDevices |-> Ev(call, k - 1)] \o << Ev("groupEnd", -1) >>

SizeMsg == "unexpected subtensor size??"

\* ------------------------------------------------ scatterReduceAndResetGrads
\* synchronizeAllOnNullStream(); groupStart(); for every local device
\* ncclReduceScatter(grads, grads[begin..end), shardSize()); groupEnd();
ScatterReduceIssue(p) ==
  /\ pc[p] = "ready" /\ op = "scatterReduceAndResetGrads"
  /\ NullStreamsSynchronized(p)
  /\ LET r == [i \in Devs |-> localShardRange(p, i)]
         bufsize == shardSize.size
     IN
       IF r[0].abort THEN
         /\ pc' = [pc EXCEPT ![p] = "aborted"]
         /\ abortMsg' = [abortMsg EXCEPT ![p] = ShardMsg]
         /\ events' = [events EXCEPT ![p] = @ \o GroupOpened]
         /\ UNCHANGED <<nccl, streams_>>
       ELSE IF \E i \in Devs : r[i].end - r[i].begin # bufsize THEN
         /\ pc' = [pc EXCEPT ![p] = "aborted"]
         /\ abortMsg' = [abortMsg EXCEPT ![p] = SizeMsg]
         /\ events' = [events EXCEPT ![p] = @ \o GroupOpened]
         /\ UNCHANGED <<nccl, streams_>>
       ELSE
         /\ events' = [events EXCEPT ![p] = @ \o GroupIssued("ncclReduceScatter")]
         /\ nccl' = [nccl EXCEPT ![p] = [i \in Devs |->
              [state |-> "pending", kind |-> "reduceScatter", send |-> grads[p][i],
               count |-> bufsize, recvAt |-> r[i].begin]]]
         /\ streams_' = [streams_ EXCEPT ![p] = [i \in Devs |-> "busy"]]
         /\ pc' = [pc EXCEPT ![p] = "r_sync"]
         /\ UNCHANGED abortMsg
  /\ UNCHANGED <<cfgVars, sigVars, nullStream, shardCalls, op, bufVars, feVars, mpiVars, stVars,
                 nbar, deviceType, uniqueId, idsGenerated, comms_>>

\* synchronizeAll(); then foreach(resetGrads) starts
ScatterReduceSync(p) ==
  /\ pc[p] = "r_sync"
  /\ StreamsSynchronized(p)
  /\ events' = [events EXCEPT ![p] = Append(@, Ev("synchronizeAll", -1))]
  /\ ForeachBegin(p, "resetGrads", TRUE)
  /\ pc' = [pc EXCEPT ![p] = "fe_dispatch"]
  /\ UNCHANGED <<cfgVars, sigVars, nullStream, commVars, shardCalls, op, abortMsg, bufVars>>

\* ------------------------------------------------------------ allGatherParams
AllGatherSendFromStart(v, begin, end) == SubSeq(v, 1, end - begin)

\* sendbuf = vals->subtensor(begin, end-begin)->data()
AllGatherSend(v, begin, end) == SubSeq(v, begin + 1, end)

\* synchronizeAllOnNullStream(); groupStart(); for every local device
\* ncclAllGather(vals[begin..end), vals, shardSize()); groupEnd();
AllGatherIssue(p) ==
  /\ pc[p] = "ready" /\ op = "allGatherParams"
  /\ NullStreamsSynchronized(p)
  /\ LET r == [i \in Devs |-> localShardRange(p, i)]
         bufsize == shardSize.size
     IN
       IF r[0].abort THEN
         /\ pc' = [pc EXCEPT ![p] = "aborted"]
         /\ abortMsg' = [abortMsg EXCEPT ![p] = ShardMsg]
         /\ events' = [events EXCEPT ![p] = @ \o GroupOpened]
         /\ UNCHANGED <<nccl, streams_>>
       ELSE
         /\ events' = [events EXCEPT ![p] = @ \o GroupIssued("ncclAllGather")]
         /\ nccl' = [nccl EXCEPT ![p] = [i \in Devs |->
              [state |-> "pending", kind |-> "allGather",
               send |-> AllGatherSend(vals[p][i], r[i].begin, r[i].end),
               count |-> bufsize, recvAt |-> 0]]]
         /\ streams_' = [streams_ EXCEPT ![p] = [i \in Devs |-> "busy"]]
         /\ pc' = [pc EXCEPT ![p] = "a_sync"]
         /\ UNCHANGED abortMsg
  /\ UNCHANGED <<cfgVars, sigVars, nullStream, shardCalls, op, bufVars, feVars, mpiVars, stVars,
                 nbar, deviceType, uniqueId, idsGenerated, comms_>>

\* synchronizeAll(); and allGatherParams returns
AllGatherSync(p) ==
  /\ pc[p] = "a_sync"
  /\ StreamsSynchronized(p)
  /\ events' = [events EXCEPT ![p] = Append(@, Ev("synchronizeAll", -1))]
  /\ pc' = [pc EXCEPT ![p] = "returned"]
  /\ UNCHANGED <<cfgVars, sigVars, nullStream, commVars, shardCalls, op, abortMsg, bufVars, feVars>>

\* --------------------------------------------------------------- swapParams
NotImplMsg == "not implemented"

SwapParamsAbortsLast(p) ==
  /\ pc[p] = "ready" /\ op = "swapParams"
  /\ pc' = [pc EXCEPT ![p] = "aborted"]
  /\ abortMsg' = [abortMsg EXCEPT ![p] = NotImplMsg]
  /\ vals' = [vals EXCEPT ![p] = [i \in Devs |-> [k \in 1 .. total |-> 0]]]
  /\ UNCHANGED <<cfgVars, sigVars, logVars, commVars, shardCalls, op, seed, grads, feVars>>

\* swapParams(distributedParamShards): ABORT("not implemented"); the rest of
\* the body is a comment
SwapParams(p) ==
  /\ pc[p] = "ready" /\ op = "swapParams"
  /\ pc' = [pc EXCEPT ![p] = "aborted"]
  /\ abortMsg' = [abortMsg EXCEPT ![p] = NotImplMsg]
  /\ UNCHANGED <<cfgVars, sigVars, logVars, commVars, shardCalls, op, bufVars, feVars>>

\* ------------------------------------------------- scatterState / gatherState
\* The io::Items handed to scatterState: byte k of an item holds k, so that a
\* byte lost, repeated or out of place shows; no byte of an item is 0.
Items(n) == { [k \in 1 .. len |-> k] : len \in 0 .. n }

RECURSIVE ConcatPrepending(_, _)
ConcatPrepending(f, n) ==
  IF n = 0 THEN << >> ELSE f[n - 1] \o ConcatPrepending(f, n - 1)

RECURSIVE Concat(_, _)
\* f[0] \o f[1] \o ... \o f[n-1]
Concat(f, n) == IF n = 0 THEN << >> ELSE Concat(f, n - 1) \o f[n - 1]

StateRangeFloor(p, localDeviceIndex) ==
  LET size      == Len(data)
      ssize     == size \div numNcclRanks
      begin     == myNcclRank(p, localDeviceIndex) * ssize
  IN  <<begin, Min(begin + ssize, size)>>

\* scatterState's (begin, end) for local device i
StateRange(p, localDeviceIndex) ==
  LET size      == Len(data)
      numShards == numNcclRanks
      ssize     == (size + numShards - 1) \div numShards
      ncclRank  == myNcclRank(p, localDeviceIndex)
      begin     == ncclRank * ssize
      end       == Min(begin + ssize, size)
  IN  <<begin, end>>

\* data.bytes.data() + begin lies past the end of the buffer: the pointer pair
\* handed to setFn has begin > end.
PastTheEnd(p) == { i \in Devs : StateRange(p, i)[1] > StateRange(p, i)[2] }

\* What a setter makes of such a pair is undefined: it may crash, or store
\* nothing, or store a byte that is not the item's.
UndefinedOutcomes ==
  { [crash |-> TRUE,  bytes |-> << >>],
    [crash |-> FALSE, bytes |-> << >>],
    [crash |-> FALSE, bytes |-> <<0>>] }

\* The setFn calls the loop gets to make: all of them, or those up to the
\* first that crashes.
SetCallsMade(p, crashing) ==
  IF crashing = {} THEN numDevices
  ELSE 1 + CHOOSE i \in crashing : \A j \in crashing : i <= j

\* scatterState(data, setFn): setFn(i, data + begin, data + end) per local device
ScatterState(p) ==
  /\ pc[p] = "ready" /\ op = "scatterState"
  /\ \E ub \in [PastTheEnd(p) -> UndefinedOutcomes] :
       /\ shards' = [shards EXCEPT ![p] = [i \in Devs |->
            IF i \in PastTheEnd(p) THEN ub[i].bytes
            ELSE SubSeq(data, StateRange(p, i)[1] + 1, StateRange(p, i)[2])]]
       /\ setCalls' = [setCalls EXCEPT ![p] =
            [k \in 1 .. SetCallsMade(p, { i \in PastTheEnd(p) : ub[i].crash }) |->
               [dev |-> k - 1, begin |-> StateRange(p, k - 1)[1],
                end |-> StateRange(p, k - 1)[2]]]]
       /\ pc' = [pc EXCEPT ![p] =
            IF \E i \in PastTheEnd(p) : ub[i].crash THEN "crashed" ELSE "g_local"]
  /\ UNCHANGED <<cfgVars, sigVars, logVars, shardCalls, op, abortMsg, bufVars, feVars, ctorVars,
                 mpiVars, nccl, data, localData, tmp, gdata, mpiRank, gathered>>

GatherAppendOverwrite(d, t, rank) == t

\* if(mpiRank == 0) data = tmp; else data.append(tmp);
GatherAppend(d, t, rank) == IF rank = 0 THEN t ELSE d \o t

\* gatherState, first: concatenate over all local devices; without MPI
\* localData is the complete result already
GatherLocal(p) ==
  /\ pc[p] = "g_local" \/ (pc[p] = "ready" /\ op = "gatherState")
  /\ LET local == Concat(shards[p], numDevices) IN
       /\ localData' = [localData EXCEPT ![p] = local]
       /\ IF mpi_
          THEN /\ pc' = [pc EXCEPT ![p] = "g_bcast"]
               /\ UNCHANGED <<gdata, gathered>>
          ELSE /\ pc' = [pc EXCEPT ![p] = "returned"]
               /\ gdata' = [gdata EXCEPT ![p] = local]
               /\ gathered' = [gathered EXCEPT ![p] = local]
  /\ UNCHANGED <<cfgVars, sigVars, logVars, shardCalls, op, abortMsg, bufVars, feVars, ctorVars,
                 mpiVars, nccl, data, shards, setCalls, tmp, mpiRank>>

\* gatherState, second: one round of the loop over mpiRank
GatherBcast(p) ==
  /\ pc[p] = "g_bcast"
  /\ LET k == mpiRank[p]
         root == GatherRoot(p)
         buffer == IF k = p THEN localData[p] ELSE tmp[p]
         received == BCastValue(p, root, buffer)
         d == GatherAppend(gdata[p], received, k)
         last == k + 1 = numMPIProcesses
     IN
       /\ BCastReady(p, root)
       /\ BCastDone(p, root, buffer)
       /\ tmp' = [tmp EXCEPT ![p] = received]
       /\ gdata' = [gdata EXCEPT ![p] = d]
       /\ mpiRank' = [mpiRank EXCEPT ![p] = k + 1]
       /\ gathered' = [gathered EXCEPT ![p] = IF last THEN d ELSE @]
       /\ pc' = [pc EXCEPT ![p] = IF last THEN "returned" ELSE "g_bcast"]
  /\ UNCHANGED <<cfgVars, sigVars, logVars, shardCalls, op, abortMsg, bufVars, feVars, ctorVars,
                 nccl, data, shards, setCalls, localData>>

\* ------------------------------------------------------------- the whole job
\* Every process constructs its communicator and then calls one operation,
\* the same on every process.
Init ==
  /\ Config
  /\ RootGoesOn
  /\ IdleSignal
  /\ BeforeConstruction
  /\ shardCalls = {}
  /\ op = "none"
  /\ funcRet = [i \in Devs |-> "true"]
  /\ IdleForeach
  /\ IdleBuffers
  /\ IdleNccl
  /\ data = << >>
  /\ IdleState

AllReady == \A p \in Procs : pc[p] = "ready"

\* The optimizer shards gatherState is to collect, when they do not come from
\* scatterState: of different lengths, or some of them empty.
ShardShapes == {"ragged", "sparse"}

ShapedShard(shape, r) ==
  IF shape = "ragged" THEN [k \in 1 .. (r + 1) |-> r % 2]
  ELSE IF r % 2 = 0 THEN << >> ELSE << (r \div 2) % 2 >>

\* The training program, the same on every process, decides what it calls on
\* the constructed communicator, and with what: the gradients and parameters
\* the step has computed (the work still on the compute streams), the item to
\* restore, or the optimizer's shards.
ChooseOperation ==
  /\ op = "none"
  /\ AllReady
  /\ \/ /\ op' \in {"scatterReduceAndResetGrads", "allGatherParams", "swapParams"}
        /\ seed' \in Seeds
        /\ grads' = [p \in Procs |-> [i \in Devs |->
                       SeedBuffer(seed', myNcclRank(p, i))]]
        /\ vals' = grads'
        /\ nullStream' = [p \in Procs |-> [i \in Devs |-> "busy"]]
        /\ UNCHANGED <<data, shards>>
     \/ /\ op' = "scatterState"
        /\ data' \in Items(MaxLen)
        /\ UNCHANGED <<bufVars, shards, nullStream>>
     \/ /\ op' = "gatherState"
        /\ \E shape \in ShardShapes :
             shards' = [p \in Procs |-> [i \in Devs |->
                          ShapedShard(shape, myNcclRank(p, i))]]
        /\ UNCHANGED <<bufVars, data, nullStream>>
  /\ UNCHANGED <<cfgVars, sigVars, events, shardCalls, pc, abortMsg, feVars, ctorVars, mpiVars, nccl,
                 setCalls, localData, tmp, gdata, mpiRank, gathered>>

\* Every process's call has returned and the training program goes on: what
\* was local to the calls is gone, the broadcasts every process has received
\* are forgotten, and the buffers and shards are what the next call is given.
NextCall ==
  /\ op # "none"
  /\ \A p \in Procs : pc[p] = "returned"
  /\ UNCHANGED <<cfgVars, sigVars, shardCalls, abortMsg, funcRet, ctorVars>>
  /\ op' = "none"
  /\ pc' = [p \in Procs |-> "ready"]
  /\ feFunc' = [p \in Procs |-> "none"]
  /\ parallel' = [p \in Procs |-> FALSE]
  /\ retValue' = [p \in Procs |-> FALSE]
  /\ loopIndex' = [p \in Procs |-> 0]
  /\ threadResults' = [p \in Procs |-> [i \in Devs |-> NoFuture]]
  /\ invoked' = [p \in Procs |-> [i \in Devs |-> 0]]
  /\ completed' = [p \in Procs |-> [i \in Devs |-> 0]]
  /\ args' = [p \in Procs |-> [i \in Devs |-> <<0, 0>>]]
  /\ result' = [p \in Procs |-> FALSE]
  /\ folded' = [p \in Procs |-> << >>]
  /\ runner' = [p \in Procs |-> [i \in Devs |-> "none"]]
  /\ seed' = "ones"
  /\ grads' = [p \in Procs |-> [i \in Devs |-> SeedBuffer("ones", myNcclRank(p, i))]]
  /\ vals' = grads'
  /\ nccl' = [p \in Procs |-> [i \in Devs |-> NoCollective]]
  /\ nullStream' = [p \in Procs |-> [i \in Devs |-> "idle"]]
  /\ events' = [p \in Procs |-> << >>]
  /\ data' = << >>
  /\ shards' = [p \in Procs |-> [i \in Devs |-> << >>]]
  /\ setCalls' = [p \in Procs |-> << >>]
  /\ localData' = [p \in Procs |-> << >>]
  /\ tmp' = [p \in Procs |-> << >>]
  /\ gdata' = [p \in Procs |-> << >>]
  /\ mpiRank' = [p \in Procs |-> 0]
  /\ gathered' = [p \in Procs |-> << >>]
  /\ bcasts' = (IF mpi_ THEN << 1 >> ELSE << >>)
  /\ nbc' = [p \in Procs |-> IF mpi_ THEN 1 ELSE 0]
  /\ mpiCalls' = [p \in Procs |-> CtorCalls]

\* The job is in no call: every process has returned from the operation, or
\* none has been called since the last returned.
NoCallRunning ==
  \/ \A q \in Procs : pc[q] \in {"returned", "destroyed"}
  \/ op = "none" /\ \A q \in Procs : pc[q] \in {"ready", "destroyed"}

DestroyCommsOnly(p) ==
  /\ NoCallRunning
  /\ pc[p] # "destroyed"
  /\ comms_' = [comms_ EXCEPT ![p] = [i \in Devs |-> [@[i] EXCEPT !.state = "destroyed"]]]
  /\ pc' = [pc EXCEPT ![p] = "destroyed"]
  /\ UNCHANGED <<cfgVars, sigVars, logVars, shardCalls, op, abortMsg, bufVars, feVars,
                 mpiVars, nccl, stVars, nbar, deviceType, streams_, uniqueId,
                 idsGenerated>>

\* ~NCCLCommunicator(): for every local device cudaStreamDestroy(streams_[i]);
\* ncclCommDestroy(comms_[i]). The communicators are destroyed when the job is
\* in no call.
Destroy(p) ==
  /\ NoCallRunning
  /\ pc[p] # "destroyed"
  /\ streams_' = [streams_ EXCEPT ![p] = [i \in Devs |-> "destroyed"]]
  /\ comms_' = [comms_ EXCEPT ![p] = [i \in Devs |-> [@[i] EXCEPT !.state = "destroyed"]]]
  /\ pc' = [pc EXCEPT ![p] = "destroyed"]
  /\ UNCHANGED <<cfgVars, sigVars, logVars, shardCalls, op, abortMsg, bufVars, feVars,
                 mpiVars, nccl, stVars, nbar, deviceType, uniqueId, idsGenerated>>

Next ==
  \/ ChooseOperation
  \/ NextCall
  \/ \E p \in Procs : Destroy(p)
  \/ \E p \in Procs : MpiBarrier(p)
  \/ \E p \in Procs : CtorDevices(p)
  \/ \E p \in Procs : CtorUniqueId(p)
  \/ \E p \in Procs : CtorBcast(p)
  \/ \E p \in Procs : CtorGroupInit(p)
  \/ \E p \in Procs : CtorGroupEnd(p)
  \/ \E p \in Procs : ScatterReduceIssue(p)
  \/ \E p \in Procs : ScatterReduceSync(p)
  \/ \E p \in Procs : AllGatherIssue(p)
  \/ \E p \in Procs : AllGatherSync(p)
  \/ \E p \in Procs, i \in Devs : ComputeFinish(p, i)
  \/ \E p \in Procs, i \in Devs : NcclKernel(p, i)
  \/ \E p \in Procs : ForeachDispatch(p)
  \/ \E p \in Procs, i \in Devs : TaskStart(p, i)
  \/ \E p \in Procs, i \in Devs : TaskFinish(p, i)
  \/ \E p \in Procs : ForeachGet(p)
  \/ \E p \in Procs : ForeachReturn(p)
  \/ \E p \in Procs : SwapParams(p)
  \/ \E p \in Procs : ScatterState(p)
  \/ \E p \in Procs : GatherLocal(p)
  \/ \E p \in Procs : GatherBcast(p)

Spec == Init /\ [][Next]_vars

\* ------------------------------------------- the cross-process exchanges
\* The operations that exchange data between processes or devices.
ExchangeOps == {"scatterReduceAndResetGrads", "allGatherParams", "gatherState"}

\* Every process constructs its communicator, over either messaging layer, and
\* then calls one of the exchanging operations, the same on every process.
InitLive ==
  /\ Config
  /\ AnyMessagingLayer
  /\ IdleSignal
  /\ BeforeConstruction
  /\ shardCalls = {}
  /\ op = "none"
  /\ funcRet = [i \in Devs |-> "true"]
  /\ IdleForeach
  /\ IdleBuffers
  /\ IdleNccl
  /\ data = << >>
  /\ IdleState

ChooseExchange ==
  /\ op = "none"
  /\ AllReady
  /\ op' \in ExchangeOps
  /\ seed' = "mixed"
  /\ grads' = [p \in Procs |-> [i \in Devs |-> SeedBuffer(seed', myNcclRank(p, i))]]
  /\ vals' = grads'
  /\ nullStream' = [p \in Procs |-> [i \in Devs |->
                      IF op' = "gatherState" THEN "idle" ELSE "busy"]]
  /\ shards' = [p \in Procs |-> [i \in Devs |->
                  IF op' = "gatherState" THEN ShapedShard("ragged", myNcclRank(p, i))
                  ELSE << >>]]
  /\ UNCHANGED <<cfgVars, sigVars, events, shardCalls, pc, abortMsg, feVars, ctorVars,
                 mpiVars, nccl, data, setCalls, localData, tmp, gdata, mpiRank, gathered>>

NextLive ==
  \/ ChooseExchange
  \/ \E p \in Procs : MpiBarrier(p)
  \/ \E p \in Procs : CtorDevices(p)
  \/ \E p \in Procs : CtorUniqueId(p)
  \/ \E p \in Procs : CtorBcast(p)
  \/ \E p \in Procs : CtorGroupInit(p)
  \/ \E p \in Procs : CtorGroupEnd(p)
  \/ \E p \in Procs : ScatterReduceIssue(p)
  \/ \E p \in Procs : ScatterReduceSync(p)
  \/ \E p \in Procs : AllGatherIssue(p)
  \/ \E p \in Procs : AllGatherSync(p)
  \/ \E p \in Procs, i \in Devs : ComputeFinish(p, i)
  \/ \E p \in Procs, i \in Devs : NcclKernel(p, i)
  \/ \E p \in Procs : ForeachDispatch(p)
  \/ \E p \in Procs, i \in Devs : TaskStart(p, i)
  \/ \E p \in Procs, i \in Devs : TaskFinish(p, i)
  \/ \E p \in Procs : ForeachGet(p)
  \/ \E p \in Procs : ForeachReturn(p)
  \/ \E p \in Procs : GatherLocal(p)
  \/ \E p \in Procs : GatherBcast(p)

\* Fair scheduling: a process, device or thread that can take a step is not
\* held back for ever. No behaviour of NextLive takes infinitely many steps
\* (every step moves some process, device or task forward in its one call),
\* so this is what weak fairness of each of them amounts to.
SpecLive == InitLive /\ [][NextLive]_vars /\ WF_vars(NextLive)

\* The state the other specifications start in is the one the constructor
\* leaves.
Constructed == (AllReady /\ op = "none") => AfterConstruction

LiveHandles == { h \in Procs \X Devs : comms_[h[1]][h[2]].state = "live" }

\* C10: at most one rendezvous token is ever generated, by process 0 (the only
\* process without MPI); every handle is initialized with that token and the
\* number of global ranks, no two handles with the same rank; and once every
\* process is constructed exactly one token has been generated.
C10_OneToken ==
  /\ Len(idsGenerated) <= 1
  /\ \A k \in 1 .. Len(idsGenerated) : idsGenerated[k].by = 0
  /\ \A h \in LiveHandles :
       /\ Len(idsGenerated) = 1
       /\ comms_[h[1]][h[2]].id = idsGenerated[1].id
       /\ comms_[h[1]][h[2]].nranks = Cardinality(Procs \X Devs)
       /\ comms_[h[1]][h[2]].rank \in 0 .. (Cardinality(Procs \X Devs) - 1)
  /\ \A g, h \in LiveHandles :
       g # h => comms_[g[1]][g[2]].rank # comms_[h[1]][h[2]].rank
  /\ AllReady => Len(idsGenerated) = 1 /\ LiveHandles = Procs \X Devs

C10_Witness ==
  /\ AllReady /\ mpi_ /\ numMPIProcesses >= 2 /\ numDevices >= 2
  /\ LiveHandles = Procs \X Devs

\* ------------------------------------------------------------------- claims
RankOf(h) == comms_[h[1]][h[2]].rank

\* C12: the handle of local device i of process p is initialized with global
\* rank p * numDevices + i (i without MPI); the ranks of all handles are
\* pairwise distinct, the local devices of a process have consecutive ranks in
\* local-index order, and once every handle is initialized the ranks are
\* exactly 0 .. numMPIProcesses * numDevices - 1.
C12_RankMapping ==
  /\ \A h \in LiveHandles :
       RankOf(h) = IF mpi_ THEN h[1] * numDevices + h[2] ELSE h[2]
  /\ \A g, h \in LiveHandles : g # h => RankOf(g) # RankOf(h)
  /\ \A g, h \in LiveHandles :
       (g[1] = h[1] /\ h[2] = g[2] + 1) => RankOf(h) = RankOf(g) + 1
  /\ LiveHandles = Procs \X Devs =>
       { RankOf(h) : h \in LiveHandles } = 0 .. (numMPIProcesses * numDevices - 1)

C12_Witness ==
  /\ mpi_ /\ numMPIProcesses >= 2 /\ numDevices >= 2
  /\ LiveHandles = Procs \X Devs
  /\ RankOf(<<1, 1>>) = 3 /\ RankOf(<<1, 0>>) = 2

ShardLen == total \div numNcclRanks

InShard(r, k) == r * ShardLen <= k /\ k < (r + 1) * ShardLen

RECURSIVE SeedSum(_, _)
\* the sum over the ranks below n of what each held at index k before the call
SeedSum(n, k) == IF n = 0 THEN 0 ELSE SeedValue(seed, n - 1, k) + SeedSum(n - 1, k)

\* C1: when scatterReduceAndResetGrads has returned on a process, each of its
\* devices' gradient buffers holds, inside the shard of the device's global
\* rank, the sum over all ranks of what they held there before the call, and 0
\* outside it.
C1_ReduceScatterResult ==
  op = "scatterReduceAndResetGrads" =>
    \A p \in Procs :
      pc[p] = "returned" =>
        \A i \in Devs, k \in 0 .. (total - 1) :
          grads[p][i][k + 1] =
            IF InShard(myNcclRank(p, i), k) THEN SeedSum(numNcclRanks, k) ELSE 0

C1_Witness ==
  /\ op = "scatterReduceAndResetGrads" /\ seed = "mixed"
  /\ numMPIProcesses >= 2 /\ numDevices >= 2 /\ total >= 4
  /\ \A p \in Procs : pc[p] = "returned"

\* C2: when allGatherParams has returned on a process, each of its devices'
\* parameter buffers is the concatenation, in ascending global rank, of what
\* each rank held in its own shard before the call.
C2_AllGatherResult ==
  op = "allGatherParams" =>
    \A p \in Procs :
      pc[p] = "returned" =>
        \A i \in Devs, k \in 0 .. (total - 1) :
          vals[p][i][k + 1] = SeedValue(seed, k \div ShardLen, k)

C2_Witness ==
  /\ op = "allGatherParams" /\ seed = "mixed"
  /\ numMPIProcesses >= 2 /\ numDevices >= 2 /\ total >= 4
  /\ \A p \in Procs : pc[p] = "returned"

\* C3: scatterState followed by gatherState returns the item given to
\* scatterState, on every process, whatever its length and the configuration.
C3_RoundTrip ==
  op = "scatterState" =>
    \A p \in Procs : pc[p] = "returned" => gathered[p] = data

\* C5 as claimed: with a total that the number of global ranks does not
\* divide, no process ever completes construction.
C5_ConstructionFails ==
  ~Divisible => \A p \in Procs : pc[p] # "ready"

ConstructedOn(p) ==
  /\ \A i \in Devs : comms_[p][i].state = "live" /\ streams_[p][i] # "none"
  /\ mpi_ => nbar[p] = 4

\* C5 as amended: the constructor never raises the shard-size error; it is
\* raised by a constructed communicator when scatterReduceAndResetGrads or
\* allGatherParams first computes a shard range, before any collective call
\* is issued, so with an uneven total neither operation issues a collective,
\* changes a buffer or returns.
C5_UnevenAbortsAtFirstShardedCall ==
  \A p \in Procs :
    /\ abortMsg[p] = ShardMsg =>
         /\ ~Divisible
         /\ ConstructedOn(p)
    /\ (~Divisible /\ op \in {"scatterReduceAndResetGrads", "allGatherParams"}) =>
         /\ pc[p] \in BarrierPcs \cup {"c_devices", "c_uniqueId", "c_bcast",
                                      "c_groupInit", "c_groupEnd", "ready", "aborted"}
         /\ \A i \in Devs :
              /\ nccl[p][i].state = "idle"
              /\ grads[p][i] = SeedBuffer(seed, myNcclRank(p, i))
              /\ vals[p][i] = SeedBuffer(seed, myNcclRank(p, i))

C5_Witness ==
  /\ ~Divisible /\ numMPIProcesses >= 2
  /\ \A p \in Procs : abortMsg[p] = ShardMsg /\ ConstructedOn(p)

\* C6: with several MPI processes, gatherState returns on every process the
\* concatenation of all devices' getter results in ascending global rank.
C6_GatherSameEverywhere ==
  (op \in {"scatterState", "gatherState"} /\ numMPIProcesses >= 2) =>
    \A p \in Procs :
      pc[p] = "returned" =>
        gathered[p] =
          Concat([r \in Ranks |-> shards[r \div numDevices][r % numDevices]],
                 numNcclRanks)

C6_Witness ==
  /\ op = "gatherState" /\ numMPIProcesses >= 2 /\ numDevices >= 2
  /\ \A p \in Procs : pc[p] = "returned" /\ gathered[p] = <<0, 1, 1, 0, 0, 0, 1, 1, 1, 1>>

\* ceil(n / d), from its definition
CeilDiv(n, d) == CHOOSE q \in 0 .. n : q * d >= n /\ (q = 0 \/ (q - 1) * d < n)

ScatterStateReturned(p) == op = "scatterState" /\ pc[p] = "g_local"

\* C13: when scatterState has returned on a process it has called the setter
\* exactly once per local device, in local-device-index order, with the range
\* [rank*shardSize, min((rank+1)*shardSize, dataSize)) of the device's global
\* rank, shardSize = ceil(dataSize / numRanks), and the process has completed
\* no broadcast and no barrier beyond the constructor's.
C13_ScatterStateLocal ==
  \A p \in Procs :
    ScatterStateReturned(p) =>
      /\ Len(setCalls[p]) = numDevices
      /\ \A i \in Devs :
           LET rank == IF mpi_ THEN p * numDevices + i ELSE i
               size == CeilDiv(Len(data), numMPIProcesses * numDevices)
           IN  setCalls[p][i + 1] =
                 [dev |-> i, begin |-> rank * size,
                  end |-> Min((rank + 1) * size, Len(data))]
      /\ nbc[p] = (IF mpi_ THEN 1 ELSE 0)
      /\ nbar[p] = (IF mpi_ THEN 4 ELSE 0)
      /\ localData[p] = << >> /\ gdata[p] = << >>

C13_Witness ==
  /\ mpi_ /\ numMPIProcesses >= 2 /\ numDevices >= 2 /\ Len(data) = 3
  /\ \A p \in Procs : ScatterStateReturned(p)

RECURSIVE LenBelow(_, _)
\* the bytes the getter returns for the local devices below i, altogether
LenBelow(p, i) == IF i = 0 THEN 0 ELSE LenBelow(p, i - 1) + Len(shards[p][i - 1])

SingleProcessGathered ==
  numMPIProcesses = 1 /\ op = "gatherState" /\ pc[0] = "returned"

\* what gatherState returned holds every local device's bytes, one device
\* after the other in local-index order, and nothing else
IsLocalConcatenation(g, p) ==
  /\ Len(g) = LenBelow(p, numDevices)
  /\ \A i \in Devs : \A k \in 1 .. Len(shards[p][i]) :
       g[LenBelow(p, i) + k] = shards[p][i][k]

\* C14 as claimed: in a single-process configuration gatherState returns the
\* local concatenation and performs no broadcast, with or without a
\* messaging-layer handle (the only broadcast is the constructor's).
C14_NoBroadcastEver ==
  SingleProcessGathered =>
    /\ IsLocalConcatenation(gathered[0], 0)
    /\ nbc[0] = (IF mpi_ THEN 1 ELSE 0)

\* C14 as amended: in a single-process configuration gatherState returns the
\* local concatenation; without a messaging-layer handle it performs no
\* broadcast; with one it performs exactly one, rooted at the process itself
\* and carrying the local concatenation.
C14_SingleProcessGather ==
  SingleProcessGathered =>
    /\ IsLocalConcatenation(gathered[0], 0)
    /\ ~mpi_ => nbc[0] = 0 /\ bcasts = << >>
    /\ mpi_ => nbc[0] = 2 /\ Len(bcasts) = 2 /\ bcasts[2] = gathered[0]

C14_Witness ==
  /\ SingleProcessGathered /\ mpi_ /\ numDevices >= 3
  /\ Len(bcasts) = 2 /\ gathered[0] = <<0, 1, 1, 0, 0, 0>>

\* C15: swapParams never returns: its only step is the fatal "not implemented",
\* and with it no gradient or parameter buffer, shard, stream, handle,
\* collective, broadcast or barrier count differs from what the constructor
\* and the caller left.
C15_SwapParamsNotImplemented ==
  op = "swapParams" =>
    \A p \in Procs :
      /\ pc[p] \in {"ready", "aborted"}
      /\ pc[p] = "aborted" => abortMsg[p] = NotImplMsg
      /\ \A i \in Devs :
           /\ grads[p][i] = SeedBuffer(seed, myNcclRank(p, i))
           /\ vals[p][i] = SeedBuffer(seed, myNcclRank(p, i))
           /\ nccl[p][i] = NoCollective
           /\ shards[p][i] = << >>
           /\ streams_[p][i] = "idle"
           /\ comms_[p][i].state = "live"
      /\ nbc[p] = (IF mpi_ THEN 1 ELSE 0)
      /\ nbar[p] = (IF mpi_ THEN 4 ELSE 0)
      /\ setCalls[p] = << >> /\ gathered[p] = << >>

C15_Witness ==
  /\ op = "swapParams" /\ seed = "mixed" /\ total >= 2 /\ numMPIProcesses >= 2
  /\ \A p \in Procs : pc[p] = "aborted" /\ abortMsg[p] = NotImplMsg

\* C16: a process one of whose devices is found not to be a GPU has aborted
\* with the GPU message, and it has generated no token, taken part in no
\* broadcast and initialized no handle; no stream exists for that device or
\* any after it.
C16_NonGpuAborts ==
  \A p \in Procs :
    (\E i \in Devs : deviceType[p][i] = "cpu") =>
      /\ pc[p] = "aborted" /\ abortMsg[p] = GpuMsg
      /\ \A i \in Devs : comms_[p][i] = NoComm
      /\ \A i \in Devs : deviceType[p][i] # "gpu" => streams_[p][i] = "none"
      /\ uniqueId[p] = 0 /\ nbc[p] = 0
      /\ \A k \in 1 .. Len(idsGenerated) : idsGenerated[k].by # p

C16_Witness ==
  /\ numMPIProcesses >= 2 /\ numDevices >= 2
  /\ pc[0] = "aborted" /\ deviceType[0][0] = "gpu" /\ deviceType[0][1] = "cpu"
  /\ pc[1] = "c_bcast"

At(L, names) == { k \in 1 .. Len(L) : L[k].name \in names }

CollectiveOps == {"scatterReduceAndResetGrads", "allGatherParams"}

\* some value outside the shard of the device's rank has been zeroed (the
\* buffers start without zeros)
ZeroedOutsideShard(p, i) ==
  \E k \in 0 .. (total - 1) :
    ~InShard(myNcclRank(p, i), k) /\ grads[p][i][k + 1] = 0

\* C17: on every process, in scatterReduceAndResetGrads and allGatherParams,
\* every collective call comes after synchronizeAllOnNullStream, at a time
\* when no compute stream is busy, and between the one groupStart and the one
\* groupEnd, one call per local device; synchronizeAll comes after groupEnd
\* and returns only when every local collective has completed; and nothing
\* outside a shard is zeroed, and the operation does not return, before
\* synchronizeAll has returned.
C17_SynchronizedBracket ==
  op \in CollectiveOps =>
    \A p \in Procs :
      LET L         == events[p]
          calls     == At(L, {"ncclReduceScatter", "ncclAllGather"})
          nullSyncs == At(L, {"synchronizeAllOnNullStream"})
          starts    == At(L, {"groupStart"})
          ends      == At(L, {"groupEnd"})
          syncs     == At(L, {"synchronizeAll"})
      IN  /\ Cardinality(nullSyncs) <= 1 /\ Cardinality(starts) <= 1
          /\ Cardinality(ends) <= 1 /\ Cardinality(syncs) <= 1
          /\ \A k \in calls :
               /\ \E j \in nullSyncs : j < k
               /\ \E j \in starts : j < k
               /\ \E j \in ends : k < j
               /\ L[k].name = (IF op = "allGatherParams" THEN "ncclAllGather"
                                ELSE "ncclReduceScatter")
          /\ calls # {} =>
               /\ Cardinality(calls) = numDevices
               /\ { L[k].dev : k \in calls } = Devs
               /\ \A i \in Devs : nullStream[p][i] = "idle"
          /\ (\E i \in Devs : nccl[p][i].state # "idle") => calls # {}
          /\ \A k \in syncs :
               /\ \E j \in ends : j < k
               /\ \A i \in Devs : nccl[p][i].state = "done"
          /\ (\E i \in Devs : ZeroedOutsideShard(p, i)) => syncs # {}
          /\ pc[p] = "returned" => syncs # {}

C17_Witness ==
  /\ op = "scatterReduceAndResetGrads" /\ numMPIProcesses >= 2 /\ numDevices >= 2
  /\ total >= 4
  /\ \A p \in Procs :
       /\ pc[p] = "returned" /\ \A i \in Devs : ZeroedOutsideShard(p, i)
       /\ events[p] = << Ev("synchronizeAllOnNullStream", -1), Ev("groupStart", -1),
                         Ev("ncclReduceScatter", 0), Ev("ncclReduceScatter", 1),
                         Ev("groupEnd", -1), Ev("synchronizeAll", -1) >>

\* C18: foreach folds the per-device results into the accumulator in ascending
\* device-index order, each device once, whatever order the tasks finish in;
\* so the sequence of acc calls, and with it the value returned under any
\* reducer, is the same with parallel = true as with parallel = false.
C18_FoldInDeviceOrder ==
  \A p \in Procs :
    /\ \A k \in 1 .. Len(folded[p]) :
         folded[p][k] = <<k - 1, funcRet[k - 1] = "true">>
    /\ pc[p] = "returned" => Len(folded[p]) = numDevices

C18_Witness ==
  \E p \in Procs :
    /\ parallel[p] /\ numDevices >= 3 /\ pc[p] = "fe_get"
    /\ folded[p] = << <<0, FALSE>> >>
    /\ threadResults[p][1].state = "running"
    /\ threadResults[p][2] = [state |-> "ready", value |-> TRUE]

\* the tasks inside func on device d
RunningOn(p, d) ==
  { i \in Devs : threadResults[p][i].state = "running" /\ TaskDevice(p, i) = d }

\* C19: within a foreach call at most one task at a time is inside func on any
\* one device; and with one local device, or parallel = false, no task is
\* handed to the pool and func runs in the caller's thread.
C19_DisjointTasks ==
  \A p \in Procs :
    /\ \A d \in Devs :
         /\ Cardinality(RunningOn(p, d)) <= 1
         /\ invoked[p][d] - completed[p][d] \in {0, 1}
    /\ (numDevices = 1 \/ ~parallel[p]) =>
         \A i \in Devs :
           /\ threadResults[p][i].state = "none"
           /\ runner[p][i] \in {"none", "caller"}
           /\ invoked[p][i] = 1 => runner[p][i] = "caller"

C19_Witness ==
  \E p \in Procs :
    /\ parallel[p] /\ numDevices >= 3
    /\ \A i \in Devs : threadResults[p][i].state = "running" /\ runner[p][i] = "worker"

\* where a process is between the return of its constructor and its destructor
BetweenPcs == {"ready", "returned", "r_sync", "a_sync", "fe_dispatch", "fe_get",
               "fe_return", "g_local", "g_bcast"}

StreamExists(st) == st \in {"idle", "busy"}

\* what holds of the handles and streams in every state
LifecycleState ==
  \A p \in Procs, i \in Devs :
    /\ Len(grads[p][i]) = total /\ Len(vals[p][i]) = total
    /\ nccl[p][i].state = "pending" =>
         comms_[p][i].state = "live" /\ StreamExists(streams_[p][i])
    /\ pc[p] \in BetweenPcs =>
         /\ StreamExists(streams_[p][i])
         /\ comms_[p][i] = [state |-> "live", nranks |-> numMPIProcesses * numDevices,
                            id |-> idsGenerated[1].id,
                            rank |-> IF mpi_ THEN p * numDevices + i ELSE i]
    /\ pc[p] = "destroyed" =>
         streams_[p][i] = "destroyed" /\ comms_[p][i].state = "destroyed"

\* what holds of every step
LifecycleStep ==
  /\ UNCHANGED <<mpi_, numMPIProcesses, numDevices, total, bCastBlocks>>
  /\ \A p \in Procs, i \in Devs :
       /\ comms_'[p][i] # comms_[p][i] =>
            \/ /\ comms_[p][i].state = "none" /\ comms_'[p][i].state = "live"
               /\ pc[p] = "c_groupInit"
            \/ /\ comms_[p][i].state = "live"
               /\ comms_'[p][i] = [comms_[p][i] EXCEPT !.state = "destroyed"]
               /\ pc[p] \in BetweenPcs /\ pc'[p] = "destroyed"
       /\ StreamExists(streams_'[p][i]) /\ ~StreamExists(streams_[p][i]) =>
            streams_[p][i] = "none" /\ pc[p] = "c_devices"
       /\ ~StreamExists(streams_'[p][i]) /\ StreamExists(streams_[p][i]) =>
            /\ streams_'[p][i] = "destroyed"
            /\ pc[p] \in BetweenPcs /\ pc'[p] = "destroyed"
       /\ streams_[p][i] = "destroyed" => streams_'[p][i] = "destroyed"
       /\ nccl'[p][i].state = "pending" /\ nccl[p][i].state # "pending" =>
            /\ comms_[p][i].state = "live" /\ StreamExists(streams_[p][i])
            /\ comms_'[p][i] = comms_[p][i]

\* C20: a device's stream and handle are created once, in the constructor,
\* and destroyed once, in the destructor; between the two, whatever calls are
\* made, the handle stays as it was created, the participants and the buffer
\* size stay the same, and a collective is issued only on a live handle.
C20_HandleLifecycle == [] LifecycleState /\ [][LifecycleStep]_vars

C20_Witness ==
  /\ op = "allGatherParams" /\ seed = "mixed" /\ total >= 4
  /\ numMPIProcesses >= 2 /\ numDevices >= 2
  /\ \A p \in Procs :
       /\ pc[p] = "destroyed"
       /\ \A i \in Devs :
            /\ comms_[p][i].state = "destroyed" /\ streams_[p][i] = "destroyed"
            /\ vals[p][i] = [k \in 1 .. total |-> SeedValue(seed, (k - 1) \div ShardLen, k - 1)]

\* the bytes [begin, end) of a setter call
BytesOf(c) == { k \in 0 .. (Len(data) - 1) : c.begin <= k /\ k < c.end }

\* the setter calls made so far, by any process
AllSetCalls ==
  { <<p, k>> \in Procs \X (1 .. MaxRanks) : k \in DOMAIN setCalls[p] }

\* C21: whatever the item's length, every range scatterState passes to the
\* setter has 0 <= begin <= end <= dataSize, and once every process has made
\* its calls the ranges of the global ranks are pairwise disjoint and cover
\* [0, dataSize).
C21_RangesWellFormed ==
  op = "scatterState" =>
    /\ \A c \in AllSetCalls :
         LET r == setCalls[c[1]][c[2]]
         IN  0 <= r.begin /\ r.begin <= r.end /\ r.end <= Len(data)
    /\ (\A p \in Procs : Len(setCalls[p]) = numDevices) =>
         /\ \A c, d \in AllSetCalls :
              c # d => BytesOf(setCalls[c[1]][c[2]]) \cap BytesOf(setCalls[d[1]][d[2]]) = {}
         /\ UNION { BytesOf(setCalls[c[1]][c[2]]) : c \in AllSetCalls }
              = 0 .. (Len(data) - 1)

IsPrefix(s, t) == Len(s) <= Len(t) /\ SubSeq(t, 1, Len(s)) = s

\* Every process makes the same barrier and bCast calls in the same order and
\* names the same root in each bCast; a process that waits for its streams
\* has issued the collective call of each of its devices in one group.
ExchangesAgree ==
  /\ \A p, q \in Procs :
       /\ IsPrefix(mpiCalls[p], mpiCalls[q]) \/ IsPrefix(mpiCalls[q], mpiCalls[p])
       /\ (pc[p] = pc[q] /\ pc[p] \in {"ready", "returned"}) => mpiCalls[p] = mpiCalls[q]
       /\ (mpi_ /\ BCastEntered(p, nbc[p], BCastRoot(p)) /\ pc[q] \in {"c_bcast", "g_bcast"}
              /\ nbc[q] = nbc[p])
            => BCastRoot(q) = BCastRoot(p)
  /\ \A p \in Procs :
       /\ pc[p] \in {"r_sync", "a_sync"} =>
            /\ events[p] = GroupIssued(IF pc[p] = "r_sync" THEN "ncclReduceScatter"
                                       ELSE "ncclAllGather")
            /\ \A i \in Devs : nccl[p][i].state # "idle"
       /\ (pc[p] = "returned" /\ op = "gatherState") =>
            mpiCalls[p] = CtorCalls \o
              (IF mpi_ THEN [k \in 1 .. numMPIProcesses |-> BCastCall(k - 1)] ELSE << >>)

CtorCalled == \A p \in Procs : pc[p] = "c_barrier1"

OpCalled == op \in ExchangeOps /\ AllReady

AllReturned == \A p \in Procs : pc[p] = "returned"

\* what makes a call abort the process instead of returning
AbortCause ==
  \/ \E p \in Procs, i \in Devs : deviceType[p][i] = "cpu"
  \/ op \in {"scatterReduceAndResetGrads", "allGatherParams"} /\ shardSizeAborts

\* C22: when every process calls the constructor, or the same one of
\* gatherState, scatterReduceAndResetGrads and allGatherParams, then under fair
\* scheduling, whether the broadcast synchronises its callers or not, the call
\* eventually returns on every process unless it aborts the job (a device
\* that is no GPU, shards of unequal size); all along, the processes make the
\* same barriers and broadcasts in the same order with the same roots, and a
\* process waits for its streams only after the group of its devices' calls.
C22_ExchangesTerminate ==
  /\ [] ExchangesAgree
  /\ CtorCalled ~> (AllReady \/ AbortCause)
  /\ OpCalled ~> (AllReturned \/ AbortCause)

C22_Witness ==
  /\ bCastBlocks /\ numMPIProcesses >= 2 /\ numDevices >= 2
  /\ op = "gatherState" /\ AllReturned
  /\ mpiCalls[1] = CtorCalls \o << BCastCall(0), BCastCall(1) >>
  /\ \A p \in Procs : gathered[p] = gathered[0] /\ Len(gathered[p]) = 10

====
